---- MODULE Spec2Model ----
(***************************************************************************)
(* Model of app/main.py: the "Pessoas API", a FastAPI service that keeps   *)
(* one table of people (pessoa) and an append-only event table             *)
(* (pessoa_event), with optimistic concurrency control on PATCH and DELETE *)
(* and a replay of the event log for stale clients.                        *)
(*                                                                         *)
(* The database is the state: the rows of pessoa, its id sequence and the  *)
(* rows of pessoa_event in insertion order.  The columns updated_at and    *)
(* created_at are left out: no handler reads them to decide anything, and  *)
(* they are copied into state_after without being read back.               *)
(***************************************************************************)
EXTENDS Integers, Sequences, FiniteSets, TLC

VARIABLES
    pessoa,          \* table pessoa: id -> row
    pessoa_id_seq,   \* last value handed out by the autoincrement of pessoa.id
    pessoa_event,    \* table pessoa_event, in insertion (id) order
    intent,          \* history: for each event, the changes its request asked for
    last,            \* the request just handled and its response, or NoRequest
    sess             \* concurrent handlers: the ORM session of each, or Idle

vars == <<pessoa, pessoa_id_seq, pessoa_event, intent, last, sess>>

(***************************************************************************)
(* Bounds of the model.                                                    *)
(***************************************************************************)
MaxPessoas == 2
MaxEvents == 4
MaxPatchFields == 1
MaxConcEvents == 3

\* The values a request may carry: two names and two cpfs, so that a field
\* can change and two people can collide; one birth date.
Nomes == {"A", "B"}
Cpfs == {"111", "222"}
Dates == {<<2000, 1, 2>>}

(***************************************************************************)
(* Optional[T]: None or one value.                                         *)
(***************************************************************************)
None == <<>>
Some(x) == <<x>>
Opt(S) == {None} \cup {Some(x) : x \in S}

(***************************************************************************)
(* date.isoformat() and date.fromisoformat(): a date is <<year, month,     *)
(* day>>, its ISO form the string YYYY-MM-DD.                              *)
(***************************************************************************)
TwoDigits(n) == IF n < 10 THEN "0" \o ToString(n) ELSE ToString(n)

isoformat(d) == ToString(d[1]) \o "-" \o TwoDigits(d[2]) \o "-" \o TwoDigits(d[3])

fromisoformat(s) == CHOOSE d \in Dates : isoformat(d) = s

(***************************************************************************)
(* Responses.  An HTTPException carries a status code and a detail; an     *)
(* exception no handler catches (IntegrityError, MultipleResultsFound)     *)
(* becomes a 500.                                                          *)
(***************************************************************************)
NotFound == [status |-> 404, detail |-> "Pessoa não encontrada"]
CpfJaCadastrado == [status |-> 409, detail |-> "CPF já cadastrado"]
InvalidVersion == [status |-> 400, detail |-> "Versão inválida"]
CpfJaUtilizado == [status |-> 409, detail |-> "CPF já utilizado por outra pessoa"]
VersionAhead ==
    [status |-> 409, detail |-> "Versão do cliente adiantada em relação ao servidor"]
VersionNotFound ==
    [status |-> 409, detail |-> "Versão solicitada inexistente para reconstrução"]
Stale == [status |-> 409, detail |-> "Versão desatualizada para DELETE"]
IntegrityError == [status |-> 500, detail |-> "IntegrityError"]
MultipleResultsFound == [status |-> 500, detail |-> "MultipleResultsFound"]
Ok == [status |-> 200, detail |-> "OK"]
Created == [status |-> 201, detail |-> "Created"]

(***************************************************************************)
(* Helpers.                                                                *)
(***************************************************************************)
pessoa_to_dict(p) ==
    [id |-> p.id,
     nome |-> p.nome,
     cpf |-> p.cpf,
     data_nascimento |-> isoformat(p.data_nascimento),
     version |-> p.version,
     deleted |-> p.deleted]

\* Mutant of apply_changes: the base state wins over the delta.
apply_changes_base_wins(base_state, changes) ==
    [k \in DOMAIN base_state \cup DOMAIN changes |->
        IF k \in DOMAIN base_state THEN base_state[k] ELSE changes[k]]

\* LWW per field: the value of the delta wins for the fields it holds.
apply_changes(base_state, changes) ==
    [k \in DOMAIN base_state \cup DOMAIN changes |->
        IF k \in DOMAIN changes THEN changes[k] ELSE base_state[k]]

\* The rows of pessoa_event (as positions in the table) a query selects.
EventsAt(evs, pessoa_id, target_version) ==
    {i \in 1..Len(evs) :
        evs[i].pessoa_id = pessoa_id /\ evs[i].new_version = target_version}

EventsBetween(evs, pessoa_id, from_version, to_version) ==
    {i \in 1..Len(evs) :
        /\ evs[i].pessoa_id = pessoa_id
        /\ evs[i].new_version > from_version
        /\ evs[i].new_version <= to_version}

\* ORDER BY new_version ASC: every order of the rows S the database may
\* return (rows of equal new_version come in any order).
RECURSIVE OrderByNewVersion(_, _)
OrderByNewVersion(evs, S) ==
    IF S = {} THEN {<<>>}
    ELSE UNION {{<<i>> \o r : r \in OrderByNewVersion(evs, S \ {i})} :
                  i \in {j \in S : \A k \in S :
                                     evs[j].new_version <= evs[k].new_version}}

\* snapshot_at_version: one_or_none() on the events of that version.
snapshot_at_version(evs, pessoa_id, target_version) ==
    LET found == EventsAt(evs, pessoa_id, target_version) IN
    IF found = {} THEN [error |-> VersionNotFound]
    ELSE IF Cardinality(found) > 1 THEN [error |-> MultipleResultsFound]
    ELSE [error |-> Ok, state |-> evs[CHOOSE i \in found : TRUE].state_after]

\* The loop of replay_forward over the rows in the order the query gave.
RECURSIVE ApplyEvents(_, _, _)
ApplyEvents(evs, order, s) ==
    IF order = <<>> THEN s
    ELSE ApplyEvents(evs, Tail(order), apply_changes(s, evs[Head(order)].changes))

\* replay_forward: the states it may return (one per order of the query).
replay_forward(evs, pessoa_id, from_version, to_version, state) ==
    IF to_version <= from_version THEN {state}
    ELSE {ApplyEvents(evs, order, state) :
            order \in OrderByNewVersion(
                evs, EventsBetween(evs, pessoa_id, from_version, to_version))}

\* Mutant of persist_event: new_version taken from base_version.
persist_event_new_is_base(p, base_version, changes) ==
    [pessoa_id |-> p.id,
     base_version |-> base_version,
     new_version |-> base_version,
     changes |-> changes,
     state_after |-> pessoa_to_dict(p)]

\* persist_event: the row added to pessoa_event for the ORM object p.
persist_event(p, base_version, changes) ==
    [pessoa_id |-> p.id,
     base_version |-> base_version,
     new_version |-> p.version,
     changes |-> changes,
     state_after |-> pessoa_to_dict(p)]

(***************************************************************************)
(* The ORM session.  A handler first reads (its queries and its decision), *)
(* which gives a plan: the response it raises, or the write it will flush  *)
(* and commit.  "loaded" is the Pessoa object as the SELECT loaded it, "p"  *)
(* the same object after the handler set its attributes.                   *)
(***************************************************************************)
NoRow ==
    [id |-> 0, nome |-> "", cpf |-> "", data_nascimento |-> <<0, 0, 0>>,
     version |-> 0, deleted |-> FALSE]

Columns == {"nome", "cpf", "data_nascimento", "version", "deleted"}

Raise(error) ==
    [resp |-> error, write |-> "none", loaded |-> NoRow, p |-> NoRow,
     base_version |-> 0, changes |-> <<>>, asked |-> <<>>]

Return(p) ==
    [resp |-> Ok, write |-> "none", loaded |-> p, p |-> p,
     base_version |-> 0, changes |-> <<>>, asked |-> <<>>]

\* Pessoa.query.filter(id == pessoa_id, deleted == False).one_or_none()
Live(tbl, pessoa_id) == pessoa_id \in DOMAIN tbl /\ ~tbl[pessoa_id].deleted

(***************************************************************************)
(* create_pessoa, up to sess.add(p).                                       *)
(***************************************************************************)
\* Mutant of new_pessoa: the person starts at version 0.
new_pessoa_at_zero(payload) ==
    [id |-> 0,
     nome |-> payload.nome,
     cpf |-> payload.cpf,
     data_nascimento |-> payload.data_nascimento,
     version |-> 0,
     deleted |-> FALSE]

\* p = Pessoa(...); the id comes with the flush.
new_pessoa(payload) ==
    [id |-> 0,
     nome |-> payload.nome,
     cpf |-> payload.cpf,
     data_nascimento |-> payload.data_nascimento,
     version |-> 1,
     deleted |-> FALSE]

create_plans(tbl, payload) ==
    LET exists == {i \in DOMAIN tbl : tbl[i].cpf = payload.cpf /\ ~tbl[i].deleted}
        p == new_pessoa(payload)
        changes == [nome |-> p.nome,
                    cpf |-> p.cpf,
                    data_nascimento |-> isoformat(p.data_nascimento),
                    deleted |-> FALSE]
    IN  IF exists # {} THEN {Raise(CpfJaCadastrado)}
        ELSE {[resp |-> Created, write |-> "insert", loaded |-> NoRow, p |-> p,
               base_version |-> 0, changes |-> changes, asked |-> changes]}

(***************************************************************************)
(* patch_pessoa, up to the first sess.flush().                             *)
(***************************************************************************)
provided_changes_of(payload) ==
    LET nome == IF payload.nome # None THEN "nome" :> payload.nome[1] ELSE <<>>
        cpf == IF payload.cpf # None THEN "cpf" :> payload.cpf[1] ELSE <<>>
        data_nascimento ==
            IF payload.data_nascimento # None
            THEN "data_nascimento" :> isoformat(payload.data_nascimento[1])
            ELSE <<>>
    IN  nome @@ cpf @@ data_nascimento

patch_direct(p, current_version, provided_changes) ==
    LET p1 == IF "nome" \in DOMAIN provided_changes
              THEN [p EXCEPT !.nome = provided_changes["nome"]] ELSE p
        p2 == IF "cpf" \in DOMAIN provided_changes
              THEN [p1 EXCEPT !.cpf = provided_changes["cpf"]] ELSE p1
        p3 == IF "data_nascimento" \in DOMAIN provided_changes
              THEN [p2 EXCEPT !.data_nascimento =
                                fromisoformat(provided_changes["data_nascimento"])]
              ELSE p2
        p4 == [p3 EXCEPT !.version = current_version + 1]
    IN  [resp |-> Ok, write |-> "update", loaded |-> p, p |-> p4,
         base_version |-> current_version, changes |-> provided_changes,
         asked |-> provided_changes]

\* Mutant of replay_changes_now: only the nome is recorded.
replay_changes_nome_only(p) == [nome |-> p.nome]

replay_changes_now(p) ==
    [nome |-> p.nome,
     cpf |-> p.cpf,
     data_nascimento |-> isoformat(p.data_nascimento)]

patch_replay(evs, p, client_version, current_version, provided_changes) ==
    LET base_snapshot == snapshot_at_version(evs, p.id, client_version) IN
    IF base_snapshot.error # Ok THEN {Raise(base_snapshot.error)}
    ELSE
      LET merged == apply_changes(base_snapshot.state, provided_changes)
          finals == replay_forward(evs, p.id, client_version, current_version, merged)
      IN  {LET p4 == [p EXCEPT !.nome = final_state.nome,
                               !.cpf = final_state.cpf,
                               !.data_nascimento =
                                   fromisoformat(final_state.data_nascimento),
                               !.version = current_version + 1]
           IN  [resp |-> Ok, write |-> "update", loaded |-> p, p |-> p4,
                base_version |-> current_version,
                changes |-> replay_changes_now(p4),
                asked |-> provided_changes]
           : final_state \in finals}

\* Mutant of invalid_version: version 0 let through.
invalid_version_negative_only(client_version) == client_version < 0

\* if client_version <= 0
invalid_version(client_version) == client_version <= 0

\* if client_version == current_version
is_current(client_version, current_version) == client_version = current_version

\* Mutant of is_ahead: off by one.
is_ahead_by_two(client_version, current_version) == client_version > current_version + 1

\* if client_version > current_version
is_ahead(client_version, current_version) == client_version > current_version

\* The other live person holding the cpf of the payload, if any.
\* Mutant of cpf_taken: the check is skipped.
cpf_taken_unchecked(tbl, pessoa_id, payload) == FALSE

cpf_taken(tbl, pessoa_id, payload) ==
    /\ payload.cpf # None
    /\ \E i \in DOMAIN tbl : /\ tbl[i].cpf = payload.cpf[1]
                             /\ i # pessoa_id
                             /\ ~tbl[i].deleted

\* Mutant of nothing_provided: a payload is never taken as empty.
nothing_provided_ignored(provided_changes) == FALSE

\* if not provided_changes
nothing_provided(provided_changes) == DOMAIN provided_changes = {}

patch_plans(tbl, evs, pessoa_id, payload) ==
    IF ~Live(tbl, pessoa_id) THEN {Raise(NotFound)}
    ELSE
      LET p == tbl[pessoa_id]
          current_version == p.version
          client_version == payload.version
          provided_changes == provided_changes_of(payload)
      IN  IF invalid_version(client_version) THEN {Raise(InvalidVersion)}
          ELSE IF cpf_taken(tbl, pessoa_id, payload) THEN {Raise(CpfJaUtilizado)}
          ELSE IF nothing_provided(provided_changes) THEN {Return(p)}
          ELSE IF is_current(client_version, current_version)
               THEN {patch_direct(p, current_version, provided_changes)}
          ELSE IF is_ahead(client_version, current_version) THEN {Raise(VersionAhead)}
          ELSE patch_replay(evs, p, client_version, current_version, provided_changes)

(***************************************************************************)
(* delete_pessoa, up to sess.flush().                                      *)
(***************************************************************************)
\* Mutant of is_stale: the current version counted as stale.
is_stale_or_current(version, current_version) == version <= current_version

\* if version < p.version
is_stale(version, current_version) == version < current_version

delete_plans(tbl, pessoa_id, version) ==
    IF ~Live(tbl, pessoa_id) THEN {Raise(NotFound)}
    ELSE
      LET p == tbl[pessoa_id] IN
      IF is_stale(version, p.version) THEN {Raise(Stale)}
      ELSE {[resp |-> Ok, write |-> "update", loaded |-> p,
             p |-> [p EXCEPT !.deleted = TRUE, !.version = p.version + 1],
             base_version |-> p.version,
             changes |-> [deleted |-> TRUE],
             asked |-> [deleted |-> TRUE]]}

(***************************************************************************)
(* get_pessoa.                                                             *)
(***************************************************************************)
get_plans(tbl, pessoa_id) ==
    IF ~Live(tbl, pessoa_id) THEN {Raise(NotFound)} ELSE {Return(tbl[pessoa_id])}

(***************************************************************************)
(* sess.flush(), persist_event() and sess.commit() of a plan, on the       *)
(* tables as they are when the flush runs.  The UPDATE the ORM emits sets  *)
(* the columns whose attribute differs from its loaded value, WHERE        *)
(* pessoa.id = p.id; the unique constraint on pessoa.cpf covers every row, *)
(* deleted or not.  A failed flush raises and the session is closed        *)
(* without a commit: nothing is written, but the id drawn from the         *)
(* sequence is spent.                                                      *)
(***************************************************************************)
Unchanged(tbl, id_seq, evs, asked, resp, body) ==
    [pessoa |-> tbl, pessoa_id_seq |-> id_seq, pessoa_event |-> evs,
     intent |-> asked, resp |-> resp, body |-> body]

commit_insert(tbl, id_seq, evs, asked, plan) ==
    LET p == [plan.p EXCEPT !.id = id_seq + 1]
        duplicate == \E i \in DOMAIN tbl : tbl[i].cpf = p.cpf
    IN  IF duplicate
        THEN Unchanged(tbl, id_seq + 1, evs, asked, IntegrityError, NoRow)
        ELSE [pessoa |-> (p.id :> p) @@ tbl,
              pessoa_id_seq |-> id_seq + 1,
              pessoa_event |-> Append(evs, persist_event(p, plan.base_version, plan.changes)),
              intent |-> Append(asked, plan.asked),
              resp |-> plan.resp,
              body |-> p]

\* Mutant of commit_update: the event is built from the person as it was
\* loaded, with only its version raised.
commit_update_stale_event(tbl, id_seq, evs, asked, plan) ==
    LET id == plan.p.id
        row == tbl[id]
        dirty == {c \in Columns : plan.p[c] # plan.loaded[c]}
        updated == [c \in DOMAIN row |-> IF c \in dirty THEN plan.p[c] ELSE row[c]]
        duplicate == /\ "cpf" \in dirty
                     /\ \E i \in DOMAIN tbl \ {id} : tbl[i].cpf = updated.cpf
    IN  IF duplicate
        THEN Unchanged(tbl, id_seq, evs, asked, IntegrityError, NoRow)
        ELSE [pessoa |-> [tbl EXCEPT ![id] = updated],
              pessoa_id_seq |-> id_seq,
              pessoa_event |->
                  Append(evs, persist_event([plan.loaded EXCEPT !.version = plan.p.version],
                                            plan.base_version, plan.changes)),
              intent |-> Append(asked, plan.asked),
              resp |-> plan.resp,
              body |-> updated]

commit_update(tbl, id_seq, evs, asked, plan) ==
    LET id == plan.p.id
        row == tbl[id]
        dirty == {c \in Columns : plan.p[c] # plan.loaded[c]}
        updated == [c \in DOMAIN row |-> IF c \in dirty THEN plan.p[c] ELSE row[c]]
        duplicate == /\ "cpf" \in dirty
                     /\ \E i \in DOMAIN tbl \ {id} : tbl[i].cpf = updated.cpf
    IN  IF duplicate
        THEN Unchanged(tbl, id_seq, evs, asked, IntegrityError, NoRow)
        ELSE [pessoa |-> [tbl EXCEPT ![id] = updated],
              pessoa_id_seq |-> id_seq,
              pessoa_event |->
                  Append(evs, persist_event(plan.p, plan.base_version, plan.changes)),
              intent |-> Append(asked, plan.asked),
              resp |-> plan.resp,
              body |-> updated]

commit(tbl, id_seq, evs, asked, plan) ==
    IF plan.write = "insert" THEN commit_insert(tbl, id_seq, evs, asked, plan)
    ELSE IF plan.write = "update" THEN commit_update(tbl, id_seq, evs, asked, plan)
    ELSE Unchanged(tbl, id_seq, evs, asked, plan.resp, plan.p)

(***************************************************************************)
(* A request cut short (client gone, worker stopped) before sess.commit(): *)
(* the session was made with autocommit=False, so what it flushed is       *)
(* rolled back when it is closed or its connection drops.  The request may *)
(* stop before its flush, or between a flush that passed and the commit;   *)
(* in the second case an INSERT has spent an id of the sequence.           *)
(***************************************************************************)
Aborted == [status |-> 0, detail |-> "aborted"]

\* Mutant of close_without_commit: an autocommit session keeps what it flushed.
close_autocommit(tbl, id_seq, evs, asked, plan) ==
    LET done == commit(tbl, id_seq, evs, asked, plan)
    IN  [done EXCEPT !.pessoa_event = evs, !.intent = asked,
                     !.resp = Aborted, !.body = NoRow]

close_without_commit(tbl, id_seq, evs, asked, plan) ==
    Unchanged(tbl, commit(tbl, id_seq, evs, asked, plan).pessoa_id_seq,
              evs, asked, Aborted, NoRow)

abort(tbl, id_seq, evs, asked, plan) ==
    {Unchanged(tbl, id_seq, evs, asked, Aborted, NoRow)}
        \cup (IF commit(tbl, id_seq, evs, asked, plan).resp = plan.resp
              THEN {close_without_commit(tbl, id_seq, evs, asked, plan)}
              ELSE {})

(***************************************************************************)
(* Requests.                                                               *)
(***************************************************************************)
NoRequest == [op |-> "none"]

PessoaIds == 1..MaxPessoas

PessoaCreate == [nome : Nomes, cpf : Cpfs, data_nascimento : Dates]

\* The versions a client may claim for a person: from 0 to one more than
\* the version the server holds.
ClaimedVersions(pessoa_id) ==
    0..(IF pessoa_id \in DOMAIN pessoa THEN pessoa[pessoa_id].version + 1 ELSE 1)

\* A PATCH body: the claimed version and at most MaxPatchFields fields.
PessoaPatch(pessoa_id) ==
    {payload \in [version : ClaimedVersions(pessoa_id),
                  nome : Opt(Nomes), cpf : Opt(Cpfs), data_nascimento : Opt(Dates)] :
        Len(payload.nome) + Len(payload.cpf) + Len(payload.data_nascimento)
            <= MaxPatchFields}

\* Within the bounds: what the request leaves has at most MaxEvents events
\* and has drawn at most MaxPessoas ids (a write that fails at its flush
\* appends no event and needs no room in the log).
Room(plan) ==
    LET done == commit(pessoa, pessoa_id_seq, pessoa_event, intent, plan)
    IN  /\ Len(done.pessoa_event) <= MaxEvents
        /\ done.pessoa_id_seq <= MaxPessoas

\* One request handled from its first query to its response, alone.
Handle(op, pessoa_id, payload, plans) ==
    /\ last.op = "none"
    /\ \E plan \in plans :
        /\ Room(plan)
        /\ LET done == commit(pessoa, pessoa_id_seq, pessoa_event, intent, plan) IN
            /\ pessoa' = done.pessoa
            /\ pessoa_id_seq' = done.pessoa_id_seq
            /\ pessoa_event' = done.pessoa_event
            /\ intent' = done.intent
            /\ last' = [op |-> op, pessoa_id |-> pessoa_id, payload |-> payload,
                        resp |-> done.resp, body |-> done.body,
                        old_pessoa |-> pessoa, old_event |-> pessoa_event]
            /\ UNCHANGED sess

create_pessoa(payload) ==
    Handle("create", 0, payload, create_plans(pessoa, payload))

patch_pessoa(pessoa_id, payload) ==
    Handle("patch", pessoa_id, payload,
           patch_plans(pessoa, pessoa_event, pessoa_id, payload))

delete_pessoa(pessoa_id, version) ==
    Handle("delete", pessoa_id, [version |-> version],
           delete_plans(pessoa, pessoa_id, version))

get_pessoa(pessoa_id) ==
    Handle("get", pessoa_id, <<>>, get_plans(pessoa, pessoa_id))

\* The response leaves; the server takes the next request.
Respond ==
    /\ last.op # "none"
    /\ last' = NoRequest
    /\ UNCHANGED <<pessoa, pessoa_id_seq, pessoa_event, intent, sess>>

Sessions == {1, 2}

Idle == [pc |-> "idle"]

Init ==
    /\ pessoa = <<>>
    /\ pessoa_id_seq = 0
    /\ pessoa_event = <<>>
    /\ intent = <<>>
    /\ last = NoRequest
    /\ sess = [s \in Sessions |-> Idle]

Next ==
    \/ \E payload \in PessoaCreate : create_pessoa(payload)
    \/ \E pessoa_id \in PessoaIds : \E payload \in PessoaPatch(pessoa_id) :
            patch_pessoa(pessoa_id, payload)
    \/ \E pessoa_id \in PessoaIds : \E version \in ClaimedVersions(pessoa_id) :
            delete_pessoa(pessoa_id, version)
    \/ \E pessoa_id \in PessoaIds : get_pessoa(pessoa_id)
    \/ Respond

Spec == Init /\ [][Next]_vars

(***************************************************************************)
(* The same requests, one at a time, where a writing request may also be   *)
(* cut short before its commit.                                            *)
(***************************************************************************)
Cut(op, pessoa_id, payload, plans) ==
    /\ last.op = "none"
    /\ \E plan \in plans :
        /\ plan.write # "none"
        /\ plan.write = "insert" => pessoa_id_seq < MaxPessoas
        /\ \E done \in abort(pessoa, pessoa_id_seq, pessoa_event, intent, plan) :
            /\ pessoa' = done.pessoa
            /\ pessoa_id_seq' = done.pessoa_id_seq
            /\ pessoa_event' = done.pessoa_event
            /\ intent' = done.intent
            /\ last' = [op |-> op, pessoa_id |-> pessoa_id, payload |-> payload,
                        resp |-> done.resp, body |-> done.body,
                        old_pessoa |-> pessoa, old_event |-> pessoa_event]
    /\ UNCHANGED sess

CutCreate(payload) == Cut("create", 0, payload, create_plans(pessoa, payload))

CutPatch(pessoa_id, payload) ==
    Cut("patch", pessoa_id, payload,
        patch_plans(pessoa, pessoa_event, pessoa_id, payload))

CutDelete(pessoa_id, version) ==
    Cut("delete", pessoa_id, [version |-> version],
        delete_plans(pessoa, pessoa_id, version))

NextCut ==
    \/ Next
    \/ \E payload \in PessoaCreate : CutCreate(payload)
    \/ \E pessoa_id \in PessoaIds : \E payload \in PessoaPatch(pessoa_id) :
            CutPatch(pessoa_id, payload)
    \/ \E pessoa_id \in PessoaIds : \E version \in ClaimedVersions(pessoa_id) :
            CutDelete(pessoa_id, version)

SpecCut == Init /\ [][NextCut]_vars

(***************************************************************************)
(* Concurrent handlers.  Each request runs in its own session and its own  *)
(* transaction (read committed): Begin is the handler up to its flush, on  *)
(* the rows committed at that time; Flush is its UPDATE or INSERT, its     *)
(* event and its commit, on the rows committed by then (the UPDATE waits   *)
(* for a writer of the same row to commit, then runs on the new row).      *)
(***************************************************************************)
Pending == {s \in Sessions : sess[s].pc = "flush"}

Begin(s, op, pessoa_id, cpf, plans) ==
    /\ sess[s].pc = "idle"
    /\ \E plan \in plans :
        /\ plan.write # "none" =>
              Len(pessoa_event) + Cardinality(Pending) < MaxConcEvents
        /\ plan.write = "insert" => pessoa_id_seq + Cardinality(Pending) < MaxPessoas
        /\ sess' = [sess EXCEPT ![s] =
                      IF plan.write = "none"
                      THEN [pc |-> "done", op |-> op, pessoa_id |-> pessoa_id,
                            cpf |-> cpf, read_version |-> plan.loaded.version,
                            committed |-> FALSE, resp |-> plan.resp]
                      ELSE [pc |-> "flush", op |-> op, pessoa_id |-> pessoa_id,
                            cpf |-> cpf, plan |-> plan]]
    /\ UNCHANGED <<pessoa, pessoa_id_seq, pessoa_event, intent, last>>

\* Of a request the session keeps the cpf a POST carries, to tell which
\* creations ask for the same one.
BeginCreate(s, payload) ==
    Begin(s, "create", 0, Some(payload.cpf), create_plans(pessoa, payload))

BeginPatch(s, pessoa_id, payload) ==
    Begin(s, "patch", pessoa_id, None, patch_plans(pessoa, pessoa_event, pessoa_id, payload))

BeginDelete(s, pessoa_id, version) ==
    Begin(s, "delete", pessoa_id, None, delete_plans(pessoa, pessoa_id, version))

Flush(s) ==
    /\ sess[s].pc = "flush"
    /\ LET done == commit(pessoa, pessoa_id_seq, pessoa_event, intent, sess[s].plan) IN
        /\ pessoa' = done.pessoa
        /\ pessoa_id_seq' = done.pessoa_id_seq
        /\ pessoa_event' = done.pessoa_event
        /\ intent' = done.intent
        /\ sess' = [sess EXCEPT ![s] =
                      [pc |-> "done", op |-> sess[s].op, pessoa_id |-> sess[s].pessoa_id,
                       cpf |-> sess[s].cpf,
                       read_version |-> sess[s].plan.loaded.version,
                       committed |-> done.pessoa_event # pessoa_event,
                       resp |-> done.resp]]
    /\ UNCHANGED last

\* sess.close(): the response leaves and the handler is free again.
Close(s) ==
    /\ sess[s].pc = "done"
    /\ sess' = [sess EXCEPT ![s] = Idle]
    /\ UNCHANGED <<pessoa, pessoa_id_seq, pessoa_event, intent, last>>

NextConc ==
    \E s \in Sessions :
        \/ \E payload \in PessoaCreate : BeginCreate(s, payload)
        \/ \E pessoa_id \in PessoaIds : \E payload \in PessoaPatch(pessoa_id) :
                BeginPatch(s, pessoa_id, payload)
        \/ \E pessoa_id \in PessoaIds : \E version \in ClaimedVersions(pessoa_id) :
                BeginDelete(s, pessoa_id, version)
        \/ Flush(s)
        \/ Close(s)

SpecConc == Init /\ [][NextConc]_vars

(***************************************************************************)
(* What the properties below read of the request just handled.             *)
(***************************************************************************)
DataFields == {"nome", "cpf", "data_nascimento"}

EventsOf(evs, pessoa_id) == {i \in 1..Len(evs) : evs[i].pessoa_id = pessoa_id}

\* The request was a PATCH / DELETE of a person that existed, not deleted.
PatchOfLive == last.op = "patch" /\ Live(last.old_pessoa, last.pessoa_id)
DeleteOfLive == last.op = "delete" /\ Live(last.old_pessoa, last.pessoa_id)

OldRow == last.old_pessoa[last.pessoa_id]
NewRow == pessoa[last.pessoa_id]
Provided == provided_changes_of(last.payload)

\* Neither table was written.
NothingWritten == pessoa = last.old_pessoa /\ pessoa_event = last.old_event

\* Exactly one event was appended, and only the row of the person changed.
OneEventAppended ==
    /\ Len(pessoa_event) = Len(last.old_event) + 1
    /\ SubSeq(pessoa_event, 1, Len(last.old_event)) = last.old_event
    /\ DOMAIN pessoa = DOMAIN last.old_pessoa
    /\ \A i \in DOMAIN pessoa \ {last.pessoa_id} : pessoa[i] = last.old_pessoa[i]

NewEvent == pessoa_event[Len(pessoa_event)]

\* The stale client's PATCH went down the replay path.
ReplayPatch ==
    /\ PatchOfLive
    /\ 0 < last.payload.version
    /\ last.payload.version < OldRow.version
    /\ DOMAIN Provided # {}

\* The client's PATCH went down the direct path.
DirectPatch ==
    /\ PatchOfLive
    /\ last.payload.version = OldRow.version
    /\ DOMAIN Provided # {}

(***************************************************************************)
(* C1: after requests handled one at a time, the new_version values of the *)
(* events of every person are exactly 1..version of the person, one event  *)
(* for each value.                                                         *)
(***************************************************************************)
C1_VersionsContiguous ==
    \A id \in DOMAIN pessoa :
        /\ {pessoa_event[i].new_version : i \in EventsOf(pessoa_event, id)}
               = 1..pessoa[id].version
        /\ Cardinality(EventsOf(pessoa_event, id)) = pessoa[id].version

\* A person created, patched by a stale client and then deleted.
C1_Witness ==
    \E id \in DOMAIN pessoa :
        /\ pessoa[id].deleted
        /\ pessoa[id].version = 4
        /\ \E i \in EventsOf(pessoa_event, id) :
               pessoa_event[i].new_version = 3 /\ intent[i] # pessoa_event[i].changes

(***************************************************************************)
(* C3: a committed PATCH on the replay path leaves, for each field f the   *)
(* client sent: the value of the latest request committed in               *)
(* (clientVersion, currentVersion] that asked to change f, if there is     *)
(* one, and the client's own value of f if no request in that range asked  *)
(* to change f; every field the client did not send keeps its value.       *)
(***************************************************************************)
Askers(f) ==
    {i \in EventsOf(last.old_event, last.pessoa_id) :
        /\ last.old_event[i].new_version > last.payload.version
        /\ last.old_event[i].new_version <= OldRow.version
        /\ f \in DOMAIN intent[i]}

LatestAsker(f) ==
    CHOOSE i \in Askers(f) :
        \A j \in Askers(f) : last.old_event[j].new_version <= last.old_event[i].new_version

C3_ReplayMerge ==
    (ReplayPatch /\ last.resp = Ok) =>
        \A f \in DataFields :
            pessoa_to_dict(NewRow)[f] =
                IF f \notin DOMAIN Provided THEN pessoa_to_dict(OldRow)[f]
                ELSE IF Askers(f) # {} THEN last.old_event[LatestAsker(f)].state_after[f]
                ELSE Provided[f]

(***************************************************************************)
(* C4: a PATCH on the direct path (claimed version = current version, some *)
(* field sent, no other live person holding the cpf sent) commits the row  *)
(* with the fields sent overwritten and version + 1, and appends one event *)
(* with base_version = current version, new_version = current version + 1  *)
(* and changes = the fields sent.                                          *)
(***************************************************************************)
C4_DirectPathCommits ==
    (DirectPatch /\ ~cpf_taken(last.old_pessoa, last.pessoa_id, last.payload)) =>
        /\ last.resp = Ok
        /\ OneEventAppended
        /\ pessoa_to_dict(NewRow) =
               apply_changes(pessoa_to_dict(OldRow),
                             Provided @@ [version |-> OldRow.version + 1])
        /\ NewEvent.pessoa_id = last.pessoa_id
        /\ NewEvent.base_version = OldRow.version
        /\ NewEvent.new_version = OldRow.version + 1
        /\ NewEvent.changes = Provided

(***************************************************************************)
(* C5: a committed PATCH on the replay path appends one event with         *)
(* base_version = current version, new_version = current version + 1 and   *)
(* changes = exactly the fields the client sent.                           *)
(***************************************************************************)
C5_ReplayRecordsIntent ==
    (ReplayPatch /\ last.resp = Ok) =>
        /\ OneEventAppended
        /\ NewEvent.base_version = OldRow.version
        /\ NewEvent.new_version = OldRow.version + 1
        /\ NewEvent.changes = Provided

(***************************************************************************)
(* C6 as the specification states it: for every person and every v in      *)
(* 1..version, replay_forward from v to the current version over the       *)
(* snapshot of v gives the state_after of the latest event.  (Read between  *)
(* requests: while a response is in hand the tables are those it left.)    *)
(***************************************************************************)
LatestSnapshot(id) == snapshot_at_version(pessoa_event, id, pessoa[id].version).state

RoundTrip(id, v) ==
    replay_forward(pessoa_event, id, v, pessoa[id].version,
                   snapshot_at_version(pessoa_event, id, v).state)

C6_RoundTripEqualsSnapshot ==
    last.op = "none" =>
        \A id \in DOMAIN pessoa : \A v \in 1..pessoa[id].version :
            RoundTrip(id, v) = {LatestSnapshot(id)}

(***************************************************************************)
(* C6, amended: the round trip gives the id, nome, cpf, data_nascimento    *)
(* and deleted of the latest snapshot, and the version of the snapshot it  *)
(* started from (no event's changes carry a version).                      *)
(***************************************************************************)
C6_RoundTripDataFields ==
    last.op = "none" =>
        \A id \in DOMAIN pessoa : \A v \in 1..pessoa[id].version :
            RoundTrip(id, v) =
                {[LatestSnapshot(id) EXCEPT !.version = v]}

\* A person at version 4 whose log holds the event of a replayed PATCH.
C6_Witness ==
    /\ last.op = "none"
    /\ \E id \in DOMAIN pessoa :
        /\ pessoa[id].version = 4
        /\ \E i \in EventsOf(pessoa_event, id) :
               /\ pessoa_event[i].new_version = 3
               /\ DOMAIN pessoa_event[i].changes = DataFields

(***************************************************************************)
(* C7 as the specification states it: a PATCH of a live person claiming a  *)
(* version above the current one fails with VersionAhead whatever the      *)
(* payload, and writes nothing.                                            *)
(***************************************************************************)
AheadPatch == PatchOfLive /\ last.payload.version > OldRow.version

C7_AheadAlwaysFails ==
    AheadPatch => (last.resp = VersionAhead /\ NothingWritten)

(***************************************************************************)
(* C7, amended: such a PATCH never writes; it fails with VersionAhead when *)
(* it sends some field and no other live person holds the cpf it sends;    *)
(* it fails with the cpf conflict when one does; and with no field sent it *)
(* returns the person as it is, with no error.                             *)
(***************************************************************************)
C7_AheadNeverWrites ==
    AheadPatch =>
        /\ NothingWritten
        /\ last.resp =
              IF cpf_taken(last.old_pessoa, last.pessoa_id, last.payload)
              THEN CpfJaUtilizado
              ELSE IF DOMAIN Provided = {} THEN Ok
              ELSE VersionAhead
        /\ last.resp = Ok => last.body = OldRow

\* A PATCH ahead of the server that sent a field and was refused.
C7_Witness == AheadPatch /\ DOMAIN Provided # {} /\ last.resp = VersionAhead

(***************************************************************************)
(* C8: a PATCH of a live person claiming a version <= 0 fails with         *)
(* InvalidVersion whatever the payload, and writes nothing.                *)
(***************************************************************************)
C8_InvalidVersion ==
    (PatchOfLive /\ last.payload.version <= 0) =>
        (last.resp = InvalidVersion /\ NothingWritten)

\* Refused with version 0 though the cpf sent is held by another live person.
C8_Witness ==
    /\ PatchOfLive
    /\ last.payload.version <= 0
    /\ cpf_taken(last.old_pessoa, last.pessoa_id, last.payload)
    /\ last.resp = InvalidVersion

(***************************************************************************)
(* C9: a DELETE of a live person claiming less than the current version    *)
(* fails with Stale and writes nothing; claiming the current version it    *)
(* succeeds: deleted = true, version + 1, the other fields as they were,   *)
(* and one event appended with base_version = the old version and          *)
(* changes = {deleted: true}.                                              *)
(***************************************************************************)
C9_DeleteDecision ==
    DeleteOfLive =>
        /\ last.payload.version < OldRow.version =>
              (last.resp = Stale /\ NothingWritten)
        /\ last.payload.version = OldRow.version =>
              /\ last.resp = Ok
              /\ OneEventAppended
              /\ NewRow = [OldRow EXCEPT !.deleted = TRUE,
                                         !.version = OldRow.version + 1]
              /\ NewEvent.pessoa_id = last.pessoa_id
              /\ NewEvent.base_version = OldRow.version
              /\ NewEvent.new_version = OldRow.version + 1
              /\ NewEvent.changes = [deleted |-> TRUE]

\* A stale DELETE refused, of a person at version 3.
C9_Witness ==
    /\ DeleteOfLive
    /\ OldRow.version = 3
    /\ last.payload.version = 2
    /\ last.resp = Stale

(***************************************************************************)
(* C10: a DELETE of a live person claiming more than the current version   *)
(* is rejected: the person stays, its version too, no event is appended.   *)
(***************************************************************************)
C10_DeleteAheadRejected ==
    (DeleteOfLive /\ last.payload.version > OldRow.version) =>
        (last.resp.status >= 400 /\ NothingWritten)

(***************************************************************************)
(* C2: when two PATCH or DELETE requests of one person run concurrently    *)
(* and both read version N before either commits, they do not both commit  *)
(* version N + 1: no person ever has two events of the same new_version.   *)
(***************************************************************************)
C2_OneWriterPerVersion ==
    /\ \A i, j \in 1..Len(pessoa_event) :
          (/\ i # j
           /\ pessoa_event[i].pessoa_id = pessoa_event[j].pessoa_id)
              => pessoa_event[i].new_version # pessoa_event[j].new_version
    /\ \A s, t \in Sessions :
          (/\ s # t
           /\ sess[s].pc = "done" /\ sess[t].pc = "done"
           /\ sess[s].op \in {"patch", "delete"} /\ sess[t].op \in {"patch", "delete"}
           /\ sess[s].pessoa_id = sess[t].pessoa_id
           /\ sess[s].read_version = sess[t].read_version)
              => ~(sess[s].committed /\ sess[t].committed)

(***************************************************************************)
(* C11: of two POST requests carrying the same cpf that are in flight      *)
(* together, exactly one creates a person and the other is answered 409    *)
(* "CPF já cadastrado"; and no two live persons ever share a cpf.          *)
(***************************************************************************)
C11_ConcurrentCreateConflict ==
    /\ \A i, j \in DOMAIN pessoa :
          (i # j /\ ~pessoa[i].deleted /\ ~pessoa[j].deleted)
              => pessoa[i].cpf # pessoa[j].cpf
    /\ \A s, t \in Sessions :
          (/\ s # t
           /\ sess[s].pc = "done" /\ sess[t].pc = "done"
           /\ sess[s].op = "create" /\ sess[t].op = "create"
           /\ sess[s].cpf = sess[t].cpf
           /\ sess[s].resp = Created)
              => sess[t].resp = CpfJaCadastrado

(***************************************************************************)
(* C12: after requests handled one at a time no two live persons hold the  *)
(* same cpf.  A PATCH of a live person whose cpf is held by another live   *)
(* person fails with 409 "CPF já utilizado" and writes nothing (as         *)
(* claimed: whatever the version it claims; as the code does: when it      *)
(* claims a version > 0), and a committed PATCH on the replay path leaves  *)
(* the person with a cpf no other live person holds.                       *)
(***************************************************************************)
LiveCpfsDistinct ==
    \A i, j \in DOMAIN pessoa :
        (i # j /\ ~pessoa[i].deleted /\ ~pessoa[j].deleted)
            => pessoa[i].cpf # pessoa[j].cpf

\* The PATCH carries a cpf that another live person held when it arrived.
CollidingPatch ==
    /\ PatchOfLive
    /\ "cpf" \in DOMAIN Provided
    /\ \E i \in DOMAIN last.old_pessoa \ {last.pessoa_id} :
          ~last.old_pessoa[i].deleted /\ last.old_pessoa[i].cpf = Provided["cpf"]

ReplayKeepsCpfFree ==
    (ReplayPatch /\ last.resp = Ok) =>
        /\ NewRow.cpf \in {OldRow.cpf} \cup {Provided[f] : f \in DOMAIN Provided \cap {"cpf"}}
        /\ \A i \in DOMAIN pessoa \ {last.pessoa_id} :
              ~pessoa[i].deleted => pessoa[i].cpf # NewRow.cpf

C12_CollisionAlwaysConflict ==
    /\ LiveCpfsDistinct
    /\ ReplayKeepsCpfFree
    /\ CollidingPatch => (last.resp = CpfJaUtilizado /\ NothingWritten)

C12_CpfUniqueAmongLive ==
    /\ LiveCpfsDistinct
    /\ ReplayKeepsCpfFree
    /\ CollidingPatch =>
          /\ NothingWritten
          /\ last.resp = IF last.payload.version <= 0 THEN InvalidVersion
                         ELSE CpfJaUtilizado

\* A stale client asks for the cpf of the other live person and is refused.
C12_Witness ==
    /\ CollidingPatch
    /\ 0 < last.payload.version
    /\ last.payload.version < OldRow.version
    /\ last.resp = CpfJaUtilizado

(***************************************************************************)
(* C13: a PATCH of a live person that claims a version > 0 and sets no     *)
(* field is answered 200 with the person as it is, whatever the version    *)
(* claimed (current, stale or ahead); no row changes and no event is       *)
(* appended.                                                               *)
(***************************************************************************)
C13_EmptyPatchIsNoOp ==
    (PatchOfLive /\ last.payload.version > 0 /\ DOMAIN Provided = {}) =>
        /\ last.resp = Ok
        /\ last.body = OldRow
        /\ NothingWritten

\* An empty PATCH from a stale client, answered with the person at version 3.
C13_Witness ==
    /\ PatchOfLive
    /\ DOMAIN Provided = {}
    /\ last.payload.version = 1
    /\ OldRow.version = 3
    /\ last.resp = Ok
    /\ last.body.version = 3

(***************************************************************************)
(* C14: a request changes the pessoa table if and only if it appends       *)
(* exactly one event, which is of the person whose row it changed; and a   *)
(* request that ends in an error, or is cut short before its commit,       *)
(* leaves every row and the whole event log as they were.                  *)
(***************************************************************************)
C14_RowAndEventTogether ==
    last.op # "none" =>
        /\ IF pessoa # last.old_pessoa
           THEN /\ Len(pessoa_event) = Len(last.old_event) + 1
                /\ SubSeq(pessoa_event, 1, Len(last.old_event)) = last.old_event
                /\ \A i \in DOMAIN last.old_pessoa \ {NewEvent.pessoa_id} :
                      i \in DOMAIN pessoa /\ pessoa[i] = last.old_pessoa[i]
                /\ DOMAIN pessoa = DOMAIN last.old_pessoa \cup {NewEvent.pessoa_id}
           ELSE pessoa_event = last.old_event
        /\ last.resp \notin {Ok, Created} => NothingWritten

\* A stale client's PATCH cut short; before it, a POST was cut short after
\* its flush and a PATCH failed at its flush.
C14_Witness ==
    /\ ReplayPatch
    /\ last.resp = Aborted
    /\ pessoa_id_seq > Cardinality(DOMAIN pessoa)

(***************************************************************************)
(* C15: a POST answered 201 has inserted one person with the fields of the *)
(* payload, version 1 and deleted false, and appended one event of that    *)
(* person with base_version 0 and new_version 1 whose changes carry the    *)
(* nome, the cpf and the data_nascimento of the payload; no other row      *)
(* changed, and a person never has a second event of base_version 0.       *)
(***************************************************************************)
C15_CreateFoundsVersionOne ==
    /\ (last.op = "create" /\ last.resp = Created) =>
          LET id == last.body.id IN
          /\ id \notin DOMAIN last.old_pessoa
          /\ DOMAIN pessoa = DOMAIN last.old_pessoa \cup {id}
          /\ \A i \in DOMAIN last.old_pessoa : pessoa[i] = last.old_pessoa[i]
          /\ pessoa[id] = last.body
          /\ last.body = [id |-> id,
                          nome |-> last.payload.nome,
                          cpf |-> last.payload.cpf,
                          data_nascimento |-> last.payload.data_nascimento,
                          version |-> 1,
                          deleted |-> FALSE]
          /\ Len(pessoa_event) = Len(last.old_event) + 1
          /\ SubSeq(pessoa_event, 1, Len(last.old_event)) = last.old_event
          /\ NewEvent.pessoa_id = id
          /\ NewEvent.base_version = 0
          /\ NewEvent.new_version = 1
          /\ NewEvent.changes.nome = last.payload.nome
          /\ NewEvent.changes.cpf = last.payload.cpf
          /\ NewEvent.changes.data_nascimento = isoformat(last.payload.data_nascimento)
    /\ \A id \in DOMAIN pessoa :
          Cardinality({i \in EventsOf(pessoa_event, id) :
                          pessoa_event[i].base_version = 0}) = 1

\* The second person created, after the first was patched.
C15_Witness ==
    /\ last.op = "create"
    /\ last.resp = Created
    /\ last.body.id = 2
    /\ Len(last.old_event) = 2

(***************************************************************************)
(* C16: a POST whose cpf is held by no live person, only by deleted ones,  *)
(* is answered 201 and inserts a new person at version 1.                  *)
(***************************************************************************)
C16_CreateReusesDeletedCpf ==
    (/\ last.op = "create"
     /\ \E i \in DOMAIN last.old_pessoa :
           last.old_pessoa[i].cpf = last.payload.cpf
     /\ \A i \in DOMAIN last.old_pessoa :
           last.old_pessoa[i].cpf = last.payload.cpf => last.old_pessoa[i].deleted)
        => /\ last.resp = Created
           /\ last.body.id \in DOMAIN pessoa \ DOMAIN last.old_pessoa
           /\ pessoa[last.body.id].version = 1
           /\ pessoa[last.body.id].cpf = last.payload.cpf

(***************************************************************************)
(* C17: after requests handled one at a time, every person has events, and *)
(* the state_after of its latest event (the last appended, which is also   *)
(* the one of greatest new_version) has the nome, cpf, data_nascimento,    *)
(* deleted and version of the person's row.                                *)
(***************************************************************************)
LatestEventOf(id) ==
    pessoa_event[CHOOSE i \in EventsOf(pessoa_event, id) :
                    \A j \in EventsOf(pessoa_event, id) : j <= i]

C17_RowIsLatestStateAfter ==
    \A id \in DOMAIN pessoa :
        /\ EventsOf(pessoa_event, id) # {}
        /\ \A j \in EventsOf(pessoa_event, id) :
              pessoa_event[j].new_version <= LatestEventOf(id).new_version
        /\ LatestEventOf(id).state_after.id = id
        /\ LatestEventOf(id).state_after.nome = pessoa[id].nome
        /\ LatestEventOf(id).state_after.cpf = pessoa[id].cpf
        /\ LatestEventOf(id).state_after.data_nascimento
              = isoformat(pessoa[id].data_nascimento)
        /\ LatestEventOf(id).state_after.deleted = pessoa[id].deleted
        /\ LatestEventOf(id).state_after.version = pessoa[id].version

\* A person whose latest event is a replayed PATCH that changed its nome,
\* beside a second person.
C17_Witness ==
    /\ ReplayPatch
    /\ last.resp = Ok
    /\ NewRow.nome # OldRow.nome
    /\ Cardinality(DOMAIN pessoa) = 2

(***************************************************************************)
(* C18: once a person is deleted its row stays in the table and never      *)
(* changes, no event is appended for it, and a PATCH or DELETE that        *)
(* arrives for it afterwards is answered 404; checked with concurrent      *)
(* requests.                                                               *)
(***************************************************************************)
DeletedRowsStay ==
    \A id \in DOMAIN pessoa :
        pessoa[id].deleted =>
            /\ id \in DOMAIN pessoa'
            /\ pessoa'[id] = pessoa[id]
            /\ EventsOf(pessoa_event', id) = EventsOf(pessoa_event, id)

C18_DeletedIsTerminal ==
    [][/\ DeletedRowsStay
       /\ \A s \in Sessions :
             (/\ sess[s].pc = "idle"
              /\ sess'[s].pc # "idle"
              /\ sess'[s].op \in {"patch", "delete"}
              /\ sess'[s].pessoa_id \in DOMAIN pessoa
              /\ pessoa[sess'[s].pessoa_id].deleted)
                 => (sess'[s].pc = "done" /\ sess'[s].resp = NotFound)]_vars

\* The same with requests handled one at a time, GET included.
C18_DeletedIsTerminalInSequence ==
    [][/\ DeletedRowsStay
       /\ (/\ last'.op \in {"get", "patch", "delete"}
           /\ last'.pessoa_id \in DOMAIN pessoa
           /\ pessoa[last'.pessoa_id].deleted)
              => last'.resp = NotFound]_vars

(***************************************************************************)
(* C19: after requests handled one at a time, every live person has        *)
(* exactly one event of each new_version below its version, no PATCH is    *)
(* answered "Versão base não encontrada", and a stale client's PATCH that  *)
(* sets a field and whose cpf, if any, is held by no other live person     *)
(* commits the person at its version + 1.                                  *)
(***************************************************************************)
OneEventPerOldVersion ==
    \A id \in DOMAIN pessoa :
        ~pessoa[id].deleted =>
            \A v \in 1..(pessoa[id].version - 1) :
                Cardinality({i \in EventsOf(pessoa_event, id) :
                                pessoa_event[i].new_version = v}) = 1

ReplayFindsItsBase ==
    /\ OneEventPerOldVersion
    /\ last.op = "patch" => last.resp \notin {VersionNotFound, MultipleResultsFound}

C19_StalePatchCommits ==
    /\ ReplayFindsItsBase
    /\ (ReplayPatch /\ ~CollidingPatch) =>
          /\ last.resp = Ok
          /\ OneEventAppended
          /\ NewRow.version = OldRow.version + 1

(***************************************************************************)
(* C20: after requests handled one at a time, for every event of a person  *)
(* with new_version k > 1, applying its changes to the state_after of the  *)
(* person's event of new_version k - 1 gives the nome, cpf,                *)
(* data_nascimento and deleted of its own state_after (so the changes of   *)
(* the events after any version, applied in order to the state_after of    *)
(* that version, give the person's current data).                          *)
(***************************************************************************)
DataOf(state) == [f \in DataFields \cup {"deleted"} |-> state[f]]

C20_ChangesExplainStateAfter ==
    \A id \in DOMAIN pessoa :
        /\ \A i, j \in EventsOf(pessoa_event, id) :
              pessoa_event[i].new_version = pessoa_event[j].new_version + 1 =>
                  DataOf(apply_changes(pessoa_event[j].state_after,
                                       pessoa_event[i].changes))
                      = DataOf(pessoa_event[i].state_after)
        /\ \A v \in 1..pessoa[id].version :
              /\ RoundTrip(id, v) # {}
              /\ \A state \in RoundTrip(id, v) :
                    DataOf(state) = [nome |-> pessoa[id].nome,
                                     cpf |-> pessoa[id].cpf,
                                     data_nascimento |->
                                         isoformat(pessoa[id].data_nascimento),
                                     deleted |-> pessoa[id].deleted]

\* A deleted person whose third event is a replayed PATCH that changed its cpf.
C20_Witness ==
    \E id \in DOMAIN pessoa :
        /\ pessoa[id].deleted
        /\ pessoa[id].version = 4
        /\ \E i, j \in EventsOf(pessoa_event, id) :
              /\ pessoa_event[i].new_version = 3
              /\ pessoa_event[j].new_version = 2
              /\ DOMAIN pessoa_event[i].changes = DataFields
              /\ pessoa_event[i].state_after.cpf # pessoa_event[j].state_after.cpf

====
